---- MODULE Spec2Model ----
(***************************************************************************)
(* A state-machine model of the audio acquisition and transcription        *)
(* pipeline of chat_new: the AudioManager component                        *)
(* (src/src/components/AudioManager.tsx) with its four source adapters,    *)
(* the audio session state, the batch evaluator, the test-corpus tile and  *)
(* the report of CopyButton, and the chat page                             *)
(* (src/src/components/ChatbotPage.tsx).                                   *)
(*                                                                         *)
(* React is modelled by its observable semantics: an event handler or an   *)
(* async continuation runs to completion, the state updates it queued are  *)
(* applied, the component re-renders and the effects whose dependencies    *)
(* changed run (cleanup first), all as one atomic step.  Promise reactions *)
(* that became runnable during that step (an aborted fetch's catch and     *)
(* finally) run right after it, before any other event, and belong to the  *)
(* same step.                                                              *)
(*                                                                         *)
(* An optional value (T | undefined) is a sequence of length at most one:  *)
(* <<>> is undefined, <<v>> is the value v.                                *)
(***************************************************************************)
EXTENDS Integers, Sequences, FiniteSets

-----------------------------------------------------------------------------
(* Bounds of the model *)

\* audio loads (URL, file, recording) begun in one run
MaxLoads == 2

\* clicks on the "Use Test Files" tile in one run
MaxTestLoads == 2

\* length of the chat conversation at which no further turn is begun
MaxMessages == 3

\* entries of the transcriptionResults a report is built from
MaxResults == 2

\* adapter invocations (loads and test-tile clicks together) in one run of
\* the four adapters side by side
MaxFlows == 2

-----------------------------------------------------------------------------
(* Strings are sequences of one-character strings *)

IsSpace(c) == c \in {" ", "\n", "\t", "\r"}

RECURSIVE trimStart(_)
trimStart(s) ==
    IF s # <<>> /\ IsSpace(Head(s)) THEN trimStart(Tail(s)) ELSE s

RECURSIVE trimEnd(_)
trimEnd(s) ==
    IF s # <<>> /\ IsSpace(s[Len(s)]) THEN trimEnd(SubSeq(s, 1, Len(s) - 1)) ELSE s

\* String.prototype.trim
trim(s) == trimEnd(trimStart(s))

\* String.prototype.indexOf for a one-character needle: 0-based, -1 if absent
indexOf(s, c) ==
    IF \E i \in 1..Len(s) : s[i] = c
        THEN (CHOOSE i \in 1..Len(s) : s[i] = c /\ \A j \in 1..(i - 1) : s[j] # c) - 1
        ELSE -1

\* String.prototype.substring(from, to), 0-based, to exclusive
substring(s, from, to) == SubSeq(s, from + 1, to)

\* String.prototype.split for a one-character separator
RECURSIVE split(_, _)
split(s, sep) ==
    LET i == indexOf(s, sep) IN
    IF i = -1 THEN <<s>>
    ELSE <<substring(s, 0, i)>> \o split(substring(s, i + 1, Len(s)), sep)

-----------------------------------------------------------------------------
(* Input alphabets *)

\* bodies the manifest request can return:
\*   "A1 hi\nA2 yo", "A3 t", and "\nX\nA1  Hi \n" (a blank line, a line
\*   without a space, doubled and trailing spaces, a trailing newline)
ManifestTexts ==
    { <<"A","1"," ","h","i","\n","A","2"," ","y","o">>,
      <<"A","3"," ","t">>,
      <<"\n","X","\n","A","1"," "," ","H","i"," ","\n">> }

\* Content-Type of an audio response of the test corpus; "null" is a missing
\* header (headers.get returns null)
TestContentTypes == {"null", "audio/wave"}

\* texts and latencies a successful transcriber.start can return
Texts == {<<"h","i">>, <<" ","Y","o">>}
Latencies == {2}

\* URLs the URL modal can submit; "" is the empty input field
Urls == {"", "u1", "u2"}

\* content-type headers of a response; "undefined" is a missing header
ContentTypes == {"undefined", "", "audio/wave", "audio/mpeg"}

\* Blob.type / File.type of a recording or a picked file
BlobTypes == {"", "audio/webm"}

\* fractions reported by progress events, in percent; <<>> is an event whose
\* fraction is undefined (progressEvent.progress, or 0/0 for an empty blob)
ProgressFractions == {<<>>, <<50>>, <<100>>}

\* ground truths, transcriptions and latencies of the results a report is
\* built from: "hi" and "To be"; " Hi\n", "a\nb", "" and "yo"; 0 and 12
ReportTruths == { <<"h","i">>, <<"T","o"," ","b","e">> }
ReportTexts == { <<" ","H","i","\n">>, <<"a","\n","b">>, <<>>, <<"y","o">> }
ReportLatencies == {0, 12}

\* what the user can type into the chat input: "", " " and "hi"
TypedTexts == { <<>>, <<" ">>, <<"h","i">> }

\* texts the chat page's transcriber can return: "yo" and ""
ChatTexts == { <<"y","o">>, <<>> }

\* API keys: none, or one
ApiKeys == {"", "k"}

\* native sample rates of the payloads handed to decodeAudioData
NativeRates == {16000, 44100}

-----------------------------------------------------------------------------
VARIABLES
    progress,             \* useState<number | undefined>: <<>> or <<percent>>
    audioData,            \* useState<{buffer,url,source,mimeType} | undefined>
    audioDownloadUrl,     \* useState<string | undefined>: "undefined" or a string
    loads,                \* the loads in flight: records [id, kind, phase, mimeType]
    nextId,               \* the next load's identity (its buffer and object URL)
    objectUrls,           \* object URLs created and not revoked
    stale,                \* URL loads that were pending when a later URL load began
    mounted,              \* the component is mounted (no render threw)
    audioDataList,        \* useState<Array<{...,filename,transcription}>>
    transcriptionResults, \* useState<Array<{filename,groundTruth,transcription,latency}>>
    testProgress,         \* useState<number>: the fraction <<num, den>> (percent)
    testLoads,            \* the TestTile.handleClick invocations in flight
    clicks,               \* clicks on the test tile so far
    ended,                \* how the handleClick that ended last ended
    batches,              \* the transcribeAllFiles invocations, in start order
    calls,                \* transcriber.start invocations not yet settled
    modelLoaded,          \* the transcriber's model artifacts are resident
    ops,                  \* the calls the last step made on the audio session
                          \* state, on onInputChange and on the URL request
                          \* (axios.get, abort), in program order
    clipboard,            \* what CopyButton last wrote to the clipboard
    messages,             \* ChatbotPage useState<Message[]>
    inputText,            \* ChatbotPage useState('')
    isLoading,            \* ChatbotPage useState(false)
    apiKey,               \* ChatbotPage useState<string>('')
    isRecording,          \* useAudioRecorder: a recording is being captured
    transcriptions,       \* handleTranscription invocations awaiting start
    requests              \* handleSend invocations awaiting axios.post

sessionVars == <<progress, audioData, audioDownloadUrl>>
loadVars == <<loads, nextId, objectUrls, stale>>
batchVars == <<audioDataList, transcriptionResults, testProgress, batches>>
transcriberVars == <<calls, modelLoaded>>

chatVars == <<messages, inputText, isLoading, apiKey, isRecording,
              transcriptions, requests>>

\* the state of the components beside AudioManager
pageVars == <<clipboard, chatVars>>

vars == <<progress, audioData, audioDownloadUrl, loads, nextId, objectUrls,
          stale, mounted, audioDataList, transcriptionResults, testProgress,
          testLoads, clicks, ended, batches, calls, modelLoaded, ops,
          clipboard, messages, inputText, isLoading, apiKey, isRecording,
          transcriptions, requests>>

testTileVars == <<testLoads, clicks, ended>>

\* what the load adapters never touch
notLoadVars == <<audioDataList, transcriptionResults, testProgress, testLoads,
                 clicks, ended, batches, modelLoaded, pageVars>>

-----------------------------------------------------------------------------
(* Audio session state *)

\* a string is truthy in JavaScript unless it is undefined or empty
Truthy(s) == s # "undefined" /\ s # ""

isAudioLoading == progress # <<>>

\* the URL load whose axios request is still open; its AbortController is the
\* one the current effect's cleanup holds
FetchingLoads == {l \in loads : l.kind = "url" /\ l.phase = "fetch"}

\* an effect without the cleanup: no request is ever aborted
AbortedByNone(oldUrl) == {}

\* the cleanup of the audioDownloadUrl effect, run when the URL changes from
\* oldUrl: requestAbortController.abort() rejects the open request, if any
AbortedBy(oldUrl) == IF Truthy(oldUrl) THEN FetchingLoads ELSE {}

\* URL loads whose fetch or decode has not finished
PendingUrlLoads == {l \in loads : l.kind = "url"}

\* NormalizeMime without the `mimeType === "audio/wave"` test
NormalizeMimeMissingOnly(contentType) ==
    IF ~Truthy(contentType) THEN "audio/wav" ELSE contentType

\* the response's content type as recorded by downloadAudioFromUrl
NormalizeMime(contentType) ==
    IF ~Truthy(contentType) \/ contentType = "audio/wave"
        THEN "audio/wav"
        ELSE contentType

\* event.loaded / event.total || 0, progressEvent.progress || 0
FractionOrZero(f) == IF f = <<>> \/ f = <<0>> THEN <<0>> ELSE f

\* Constants.SAMPLING_RATE, the rate every AudioContext is created with
SAMPLING_RATE == 16000

\* a decode that keeps the payload's native rate
decodeAtNativeRate(contextRate, nativeRate) == nativeRate

\* audioCTX.decodeAudioData: the buffer it resolves with is resampled from the
\* payload's native rate to the rate of the context
decodeAudioData(contextRate, nativeRate) == contextRate

\* the value handed to setAudioData for load l; sampleRate is the rate of the
\* AudioBuffer `buffer`
DecodedAudio(l, source, nativeRate) ==
    [buffer |-> l.id, sampleRate |-> decodeAudioData(SAMPLING_RATE, nativeRate),
     url |-> l.id, source |-> source, mimeType |-> l.mimeType]

\* one entry of `ops`: flow (a load's id, 0 for a test-corpus load) made the
\* call op
Op(flow, op) == [flow |-> flow, op |-> op]

\* a load that leaves the previous audio in place when it begins
KeepAudio(a) == a

\* setAudioData(undefined) at the beginning of a load (resetAudio, and the
\* first statement of downloadAudioFromUrl): a is the audio held before
ClearAudio(a) == <<>>

\* the effect cleanup's requestAbortController.abort() for the request in
\* `aborted`
AbortCalls(aborted) ==
    IF aborted = {} THEN <<>>
    ELSE <<Op((CHOOSE l \in aborted : TRUE).id, "abort")>>

\* the finally of downloadAudioFromUrl, run for every request in `aborted`
AbortedFinally(aborted) ==
    IF aborted = {} THEN <<>>
    ELSE <<Op((CHOOSE l \in aborted : TRUE).id, "setProgress")>>

-----------------------------------------------------------------------------
(* Transcriber (the useTranscriber hook, an external collaborator) *)

\* the hook's status flags
isBusy == calls # {}
isModelLoading == \E c \in calls : c.phase = "loading"

\* transcriber.start(buffer) by `caller` (0 is the Transcribe button, b > 0 is
\* batch b) for its item number `item` (0 for the button) with a buffer of
\* sample rate `rate`: the invocation is in flight until it settles; it waits
\* for the model artifacts when they are not resident yet.  No gate
\* serialises invocations: the hook relies on its callers for that.
start(cs, caller, item, rate) ==
    cs \cup {[caller |-> caller, item |-> item, rate |-> rate,
              phase |-> IF modelLoaded THEN "inference" ELSE "loading",
              changed |-> FALSE]}

\* transcriber.onInputChange(): the invocations in flight go on, the meaning
\* of their pending results is cancelled
onInputChange(cs) == {[c EXCEPT !.changed = TRUE] : c \in cs}

\* the model artifacts are ready: every waiting invocation begins inference;
\* the hook's worker does not depend on AudioManager being mounted
ModelLoaded ==
    /\ isModelLoading
    /\ modelLoaded' = TRUE
    /\ calls' = {[c EXCEPT !.phase = "inference"] : c \in calls}
    /\ ops' = <<>>
    /\ UNCHANGED <<sessionVars, loadVars, pageVars, mounted, batchVars, testTileVars>>

\* what a settled start hands its caller: <<"ok", text, latency>>,
\* <<"undefined">> (resolved with no data) or <<"throw">>
Outcomes ==
    {<<"ok", t, l>> : t \in Texts, l \in Latencies} \cup {<<"undefined">>, <<"throw">>}

-----------------------------------------------------------------------------
(* URL adapter *)

\* UrlTile.onSubmit -> onUrlUpdate (onInputChange, setAudioDownloadUrl), then
\* the effect on [audioDownloadUrl]: cleanup aborts the previous request, and
\* downloadAudioFromUrl begins the new one
SubmitUrl(u) ==
    /\ mounted
    /\ nextId <= MaxLoads
    /\ calls' = onInputChange(calls)
    /\ IF u = audioDownloadUrl
         THEN \* same state value: no re-render, the effect does not run
              /\ ops' = <<Op(nextId, "onInputChange"), Op(nextId, "setAudioDownloadUrl")>>
              /\ UNCHANGED <<sessionVars, loadVars>>
         ELSE LET aborted == AbortedBy(audioDownloadUrl) IN
              /\ audioDownloadUrl' = u
              /\ IF Truthy(u)
                   THEN /\ audioData' = ClearAudio(audioData)
                        \* setProgress(0), then the aborted request's finally
                        /\ progress' = IF aborted # {} THEN <<>> ELSE <<0>>
                        /\ loads' = (loads \ aborted) \cup
                               {[id |-> nextId, kind |-> "url", phase |-> "fetch",
                                 contentType |-> "undefined", mimeType |-> "undefined",
                                 signalled |-> TRUE]}
                        /\ nextId' = nextId + 1
                        /\ stale' = stale \cup {l.id : l \in PendingUrlLoads}
                        /\ ops' = <<Op(nextId, "onInputChange"),
                                    Op(nextId, "setAudioDownloadUrl")>>
                                  \o AbortCalls(aborted)
                                  \o <<Op(nextId, "setAudioData"),
                                       Op(nextId, "setProgress"),
                                       Op(nextId, "axios.get")>>
                                  \o AbortedFinally(aborted)
                   ELSE /\ progress' = IF aborted # {} THEN <<>> ELSE progress
                        /\ loads' = loads \ aborted
                        /\ ops' = <<Op(nextId, "onInputChange"),
                                    Op(nextId, "setAudioDownloadUrl")>>
                                  \o AbortCalls(aborted)
                                  \o AbortedFinally(aborted)
                        /\ UNCHANGED <<audioData, nextId, stale>>
              /\ UNCHANGED objectUrls
    /\ UNCHANGED <<mounted, notLoadVars>>

\* onDownloadProgress of the open request
UrlProgress(l, f) ==
    /\ mounted
    /\ l \in FetchingLoads
    /\ progress' = FractionOrZero(f)
    /\ ops' = <<Op(l.id, "setProgress")>>
    /\ UNCHANGED <<audioData, audioDownloadUrl, loadVars, mounted, calls, notLoadVars>>

\* axios.get resolves: the mime type is normalised, setAudioFromDownload is
\* called without await (object URL created, decode begun), finally clears
\* the progress
UrlFetchOk(l, contentType) ==
    /\ mounted
    /\ l \in FetchingLoads
    /\ loads' = (loads \ {l}) \cup
                  {[l EXCEPT !.phase = "decode", !.contentType = contentType,
                             !.mimeType = NormalizeMime(contentType)]}
    /\ objectUrls' = objectUrls \cup {l.id}
    /\ progress' = <<>>
    /\ ops' = <<Op(l.id, "setProgress")>>
    /\ UNCHANGED <<audioData, audioDownloadUrl, nextId, stale, mounted, calls, notLoadVars>>

\* a rejection that is caught but followed by no finally
UrlFetchFailNoFinally(l) ==
    /\ mounted
    /\ l \in FetchingLoads
    /\ loads' = loads \ {l}
    /\ ops' = <<>>
    /\ UNCHANGED <<sessionVars, nextId, objectUrls, stale, mounted, calls, notLoadVars>>

\* axios.get rejects with a network error: catch logs, finally clears
UrlFetchFail(l) ==
    /\ mounted
    /\ l \in FetchingLoads
    /\ loads' = loads \ {l}
    /\ progress' = <<>>
    /\ ops' = <<Op(l.id, "setProgress")>>
    /\ UNCHANGED <<audioData, audioDownloadUrl, nextId, objectUrls, stale, mounted,
                   calls, notLoadVars>>

\* setAudioFromDownload after its await: decodeAudioData resolved
setAudioFromDownload(l, nativeRate) ==
    /\ audioData' = <<DecodedAudio(l, "URL", nativeRate)>>
    /\ loads' = loads \ {l}
    /\ ops' = <<Op(l.id, "setAudioData")>>

UrlDecodeOk(l, nativeRate) ==
    /\ mounted
    /\ l \in loads /\ l.kind = "url" /\ l.phase = "decode"
    /\ setAudioFromDownload(l, nativeRate)
    /\ UNCHANGED <<progress, audioDownloadUrl, nextId, objectUrls, stale, mounted,
                   calls, notLoadVars>>

\* decodeAudioData rejected: the un-awaited promise rejects, nothing is set
UrlDecodeFail(l) ==
    /\ mounted
    /\ l \in loads /\ l.kind = "url" /\ l.phase = "decode"
    /\ loads' = loads \ {l}
    /\ ops' = <<>>
    /\ UNCHANGED <<sessionVars, nextId, objectUrls, stale, mounted, calls, notLoadVars>>

-----------------------------------------------------------------------------
(* Recording adapter *)

\* RecordTile.setAudioData (onInputChange, setAudioFromRecording up to
\* readAsArrayBuffer), then the effect cleanup for the cleared audioDownloadUrl
SubmitRecording(type) ==
    /\ mounted
    /\ nextId <= MaxLoads
    /\ calls' = onInputChange(calls)
    /\ LET aborted == AbortedBy(audioDownloadUrl) IN
       /\ audioData' = ClearAudio(audioData)      \* resetAudio
       /\ audioDownloadUrl' = "undefined"
       /\ progress' = IF aborted # {} THEN <<>> ELSE <<0>>
       /\ loads' = (loads \ aborted) \cup
                     {[id |-> nextId, kind |-> "rec", phase |-> "read",
                       contentType |-> type, mimeType |-> type,
                       signalled |-> TRUE]}
       /\ ops' = <<Op(nextId, "onInputChange"), Op(nextId, "setAudioData"),
                   Op(nextId, "setAudioDownloadUrl"), Op(nextId, "setProgress")>>
                 \o AbortCalls(aborted)
                 \o AbortedFinally(aborted)
    /\ objectUrls' = objectUrls \cup {nextId}
    /\ nextId' = nextId + 1
    /\ UNCHANGED <<stale, mounted, notLoadVars>>

\* fileReader.onprogress
RecProgress(l, f) ==
    /\ mounted
    /\ l \in loads /\ l.kind = "rec" /\ l.phase = "read"
    /\ progress' = FractionOrZero(f)
    /\ ops' = <<Op(l.id, "setProgress")>>
    /\ UNCHANGED <<audioData, audioDownloadUrl, loadVars, mounted, calls, notLoadVars>>

\* fileReader.onloadend up to its await
RecReadEnd(l) ==
    /\ mounted
    /\ l \in loads /\ l.kind = "rec" /\ l.phase = "read"
    /\ loads' = (loads \ {l}) \cup {[l EXCEPT !.phase = "decode"]}
    /\ ops' = <<>>
    /\ UNCHANGED <<sessionVars, nextId, objectUrls, stale, mounted, calls, notLoadVars>>

\* onloadend after its await: decodeAudioData resolved
RecDecodeOk(l, nativeRate) ==
    /\ mounted
    /\ l \in loads /\ l.kind = "rec" /\ l.phase = "decode"
    /\ progress' = <<>>
    /\ audioData' = <<DecodedAudio(l, "RECORDING", nativeRate)>>
    /\ loads' = loads \ {l}
    /\ ops' = <<Op(l.id, "setProgress"), Op(l.id, "setAudioData")>>
    /\ UNCHANGED <<audioDownloadUrl, nextId, objectUrls, stale, mounted, calls, notLoadVars>>

\* decodeAudioData rejected (or the read failed and result is null): the
\* handler's promise rejects, the progress is left as it is
RecDecodeFail(l) ==
    /\ mounted
    /\ l \in loads /\ l.kind = "rec" /\ l.phase = "decode"
    /\ loads' = loads \ {l}
    /\ ops' = <<>>
    /\ UNCHANGED <<sessionVars, nextId, objectUrls, stale, mounted, calls, notLoadVars>>

-----------------------------------------------------------------------------
(* File adapter *)

\* FileTile elem.oninput up to readAsArrayBuffer
PickFile(type) ==
    /\ mounted
    /\ nextId <= MaxLoads
    /\ loads' = loads \cup {[id |-> nextId, kind |-> "file", phase |-> "read",
                             contentType |-> type, mimeType |-> type,
                             signalled |-> FALSE]}
    /\ objectUrls' = objectUrls \cup {nextId}
    /\ nextId' = nextId + 1
    /\ ops' = <<>>
    /\ UNCHANGED <<sessionVars, stale, mounted, calls, notLoadVars>>

\* the reader's "load" listener up to its await; a failed read fires no
\* "load" event and an empty result returns early
FileRead(l, ok) ==
    /\ mounted
    /\ l \in loads /\ l.kind = "file" /\ l.phase = "read"
    /\ loads' = IF ok THEN (loads \ {l}) \cup {[l EXCEPT !.phase = "decode"]}
                      ELSE loads \ {l}
    /\ ops' = <<>>
    /\ UNCHANGED <<sessionVars, nextId, objectUrls, stale, mounted, calls, notLoadVars>>

\* onFileUpdate with the two calls of the callback in the other order
onFileUpdateSetsFirst(l, nativeRate) ==
    /\ calls' = onInputChange(calls)
    /\ audioData' = <<DecodedAudio(l, "FILE", nativeRate)>>
    /\ loads' = loads \ {l}
    /\ ops' = <<Op(l.id, "setAudioData"), Op(l.id, "onInputChange")>>

\* the listener after its await: props.onFileUpdate(decoded, urlObj, mimeType)
\* calls onInputChange, then setAudioData
onFileUpdate(l, nativeRate) ==
    /\ calls' = onInputChange(calls)
    /\ audioData' = <<DecodedAudio(l, "FILE", nativeRate)>>
    /\ loads' = loads \ {l}
    /\ ops' = <<Op(l.id, "onInputChange"), Op(l.id, "setAudioData")>>

FileDecodeOk(l, nativeRate) ==
    /\ mounted
    /\ l \in loads /\ l.kind = "file" /\ l.phase = "decode"
    /\ onFileUpdate(l, nativeRate)
    /\ UNCHANGED <<progress, audioDownloadUrl, nextId, objectUrls, stale, mounted, notLoadVars>>

FileDecodeFail(l) ==
    /\ mounted
    /\ l \in loads /\ l.kind = "file" /\ l.phase = "decode"
    /\ loads' = loads \ {l}
    /\ ops' = <<>>
    /\ UNCHANGED <<sessionVars, nextId, objectUrls, stale, mounted, calls, notLoadVars>>

-----------------------------------------------------------------------------
(* Transcribe button *)

\* TranscribeButton onClick: rendered only while audioData is set; the button
\* is disabled while the transcriber is busy or loading its model
TranscribeClick ==
    /\ mounted
    /\ audioData # <<>>
    /\ ~isBusy /\ ~isModelLoading
    /\ calls' = start(calls, 0, 0, audioData[1].sampleRate)
    /\ ops' = <<>>
    /\ UNCHANGED <<sessionVars, loadVars, pageVars, mounted, batchVars, testTileVars, modelLoaded>>

\* the button's start settles: AudioManager ignores the returned promise
ButtonStartSettled(c) ==
    /\ mounted
    /\ c \in calls /\ c.caller = 0 /\ c.phase = "inference"
    /\ calls' = calls \ {c}
    /\ ops' = <<>>
    /\ UNCHANGED <<sessionVars, loadVars, pageVars, mounted, batchVars, testTileVars, modelLoaded>>

-----------------------------------------------------------------------------
(* Batch evaluator *)

\* a batch is [items, i]: the captured audioDataList and the 1-based index of
\* the item whose start is awaited; a batch whose loop has ended keeps its
\* place in `batches` as Finished
Finished == [items |-> <<>>, i |-> 1]
BatchDone(b) == b.i > Len(b.items)
RunningBatches == {n \in 1..Len(batches) : ~BatchDone(batches[n])}

\* ResultOf reading the text and latency from the transcriber output the
\* loop's closure captured (none yet) instead of the value start returned
ResultOfCapturedOutput(item, outcome) ==
    IF outcome[1] = "ok"
        THEN <<[filename |-> item.filename,
                groundTruth |-> item.transcription,
                transcription |-> <<>>,
                latency |-> 0]>>
        ELSE <<>>

\* the record the loop body builds for an item: `result` stays undefined
\* unless start resolved with data
ResultOf(item, outcome) ==
    IF outcome[1] = "ok"
        THEN <<[filename |-> item.filename,
                groundTruth |-> item.transcription,
                transcription |-> outcome[2],
                latency |-> outcome[3]]>>
        ELSE <<>>

\* ((i + 1) / totalFiles) * 100, kept as the exact fraction <<num, den>>
ProgressAfter(i, totalFiles) == <<i * 100, totalFiles>>

\* CopyButton renders `${data.latency}...` for every entry of
\* transcriptionResults: an undefined entry makes the render throw, which
\* unmounts the component tree
RenderThrows(results) == \E k \in 1..Len(results) : results[k] = <<>>

\* transcribeAllFiles up to its first await, run by the effect on
\* [audioDataList] when the list is not empty; cs is the transcriber's
\* invocations in flight as the callback's onInputChange left them
transcribeAllFiles(list, cs) ==
    /\ testProgress' = <<0, 1>>
    /\ transcriptionResults' = <<>>
    /\ batches' = Append(batches, [items |-> list, i |-> 1])
    /\ calls' = start(cs, Len(batches) + 1, 1, list[1].sampleRate)

\* onFilesLoaded with the effect's guard `audioDataList.length > 0` dropped:
\* transcribeAllFiles runs its resets for an empty list too
onFilesLoadedUnguarded(list) ==
    /\ audioDataList' = list
    /\ ops' = <<Op(0, "onInputChange"), Op(0, "setAudioDataList")>>
    /\ testProgress' = <<0, 1>>
    /\ transcriptionResults' = <<>>
    /\ IF Len(list) > 0
         THEN /\ batches' = Append(batches, [items |-> list, i |-> 1])
              /\ calls' = start(onInputChange(calls), Len(batches) + 1, 1,
                                list[1].sampleRate)
         ELSE /\ calls' = onInputChange(calls)
              /\ UNCHANGED batches

\* TestTile's onFilesLoaded: onInputChange, setAudioDataList, then the effect
onFilesLoaded(list) ==
    /\ audioDataList' = list
    /\ ops' = <<Op(0, "onInputChange"), Op(0, "setAudioDataList")>>
    /\ IF Len(list) > 0
         THEN transcribeAllFiles(list, onInputChange(calls))
         ELSE /\ calls' = onInputChange(calls)
              /\ UNCHANGED <<testProgress, transcriptionResults, batches>>

\* BatchStartSettled with a loop that ends at the first item whose start
\* threw or returned no data
BatchStartSettledAborts(c, outcome) ==
    /\ c \in calls /\ c.caller > 0
    /\ c.phase = "inference" \/ outcome = <<"throw">>
    /\ LET b == batches[c.caller]
           totalFiles == Len(b.items)
           result == ResultOf(b.items[b.i], outcome)
           results == Append(transcriptionResults, result)
       IN /\ IF mounted
               THEN /\ testProgress' = ProgressAfter(b.i, totalFiles)
                    /\ transcriptionResults' = results
                    /\ mounted' = ~RenderThrows(results)
               ELSE UNCHANGED <<testProgress, transcriptionResults, mounted>>
          /\ IF b.i + 1 <= totalFiles /\ outcome[1] = "ok"
               THEN /\ batches' = [batches EXCEPT ![c.caller].i = b.i + 1]
                    /\ calls' = start(calls \ {c}, c.caller, b.i + 1,
                                      b.items[b.i + 1].sampleRate)
               ELSE /\ batches' = [batches EXCEPT ![c.caller] = Finished]
                    /\ calls' = calls \ {c}
    /\ ops' = <<>>
    /\ UNCHANGED <<sessionVars, loadVars, pageVars, audioDataList, testTileVars, modelLoaded>>

\* the loop body of transcribeAllFiles after its await, up to the next await
\* (or the end of the loop).  The loop is not tied to the component: after an
\* unmount it goes on, and its state updates are dropped
BatchStartSettled(c, outcome) ==
    /\ c \in calls /\ c.caller > 0
    /\ c.phase = "inference" \/ outcome = <<"throw">>
    /\ LET b == batches[c.caller]
           totalFiles == Len(b.items)
           result == ResultOf(b.items[b.i], outcome)
           results == Append(transcriptionResults, result)
       IN /\ IF mounted
               THEN /\ testProgress' = ProgressAfter(b.i, totalFiles)
                    /\ transcriptionResults' = results
                    /\ mounted' = ~RenderThrows(results)
               ELSE UNCHANGED <<testProgress, transcriptionResults, mounted>>
          /\ IF b.i + 1 <= totalFiles
               THEN /\ batches' = [batches EXCEPT ![c.caller].i = b.i + 1]
                    /\ calls' = start(calls \ {c}, c.caller, b.i + 1,
                                      b.items[b.i + 1].sampleRate)
               ELSE /\ batches' = [batches EXCEPT ![c.caller] = Finished]
                    /\ calls' = calls \ {c}
    /\ ops' = <<>>
    /\ UNCHANGED <<sessionVars, loadVars, pageVars, audioDataList, testTileVars, modelLoaded>>

-----------------------------------------------------------------------------
(* Bulk test-corpus adapter: TestTile.handleClick *)

\* text.split('\n').filter((line) => line.trim() !== '')
ManifestLines(text) == SelectSeq(split(text, "\n"), LAMBDA line : trim(line) # <<>>)

\* a line the loop does not skip with `continue`
HasSpace(line) == indexOf(line, " ") # -1

Filename(line) == substring(line, 0, indexOf(line, " "))
GroundTruth(line) == trim(substring(line, indexOf(line, " ") + 1, Len(line)))

\* headers.get('Content-Type') || 'audio/wav'
TestMime(contentType) ==
    IF contentType = "null" \/ contentType = "" THEN "audio/wav" ELSE contentType

\* the entry pushed for a line whose audio was fetched and decoded
TestItem(line, contentType, nativeRate) ==
    [buffer |-> Filename(line),
     sampleRate |-> decodeAudioData(SAMPLING_RATE, nativeRate),
     url |-> Filename(line) \o <<".flac">>,
     source |-> "TEST",
     mimeType |-> TestMime(contentType),
     filename |-> Filename(line),
     transcription |-> GroundTruth(line)]

\* the next line after index k that the loop processes, 0 when there is none
NextLine(lines, k) ==
    IF \E j \in (k + 1)..Len(lines) : HasSpace(lines[j])
        THEN CHOOSE j \in (k + 1)..Len(lines) :
                 HasSpace(lines[j]) /\ \A m \in (k + 1)..(j - 1) : ~HasSpace(lines[m])
        ELSE 0

RemoveAt(seq, n) == SubSeq(seq, 1, n - 1) \o SubSeq(seq, n + 1, Len(seq))

\* a handleClick invocation in flight is [lines, k, phase, ctype, list,
\* failed]: the manifest's lines, the index of the line being processed,
\* the await it is suspended at ("manifest", "fetch", "decode"), the content
\* type of the response being decoded, the local audioDataList, and the
\* indices of the lines whose fetch or decode failed.  `ended` keeps, of the
\* invocation that ended last, how it ended ("delivered" through
\* props.onFilesLoaded, "aborted" in the outer catch) and its lines, failed
\* and k.
handleClick ==
    /\ mounted
    /\ clicks < MaxTestLoads
    /\ clicks' = clicks + 1
    /\ testLoads' = Append(testLoads,
           [lines |-> <<>>, k |-> 0, phase |-> "manifest", ctype |-> "null",
            list |-> <<>>, failed |-> {}])
    /\ ops' = <<>>
    /\ UNCHANGED <<sessionVars, loadVars, pageVars, mounted, batchVars, transcriberVars, ended>>

\* the loop moves on from line r.k of invocation n (whose record is now r):
\* to the fetch of the next line, or past the loop to props.onFilesLoaded
LoopContinues(n, r) ==
    LET j == NextLine(r.lines, r.k) IN
    IF j # 0
        THEN /\ testLoads' = [testLoads EXCEPT ![n] = [r EXCEPT !.k = j, !.phase = "fetch"]]
             /\ ops' = <<>>
             /\ UNCHANGED <<batchVars, calls, ended>>
        ELSE /\ testLoads' = RemoveAt(testLoads, n)
             /\ ended' = [how |-> "delivered", lines |-> r.lines,
                          failed |-> r.failed, k |-> r.k]
             /\ onFilesLoaded(r.list)

\* fetch(transcriptionsFile) and response.text() resolved
ManifestFetched(n, text) ==
    /\ mounted
    /\ n \in 1..Len(testLoads) /\ testLoads[n].phase = "manifest"
    /\ LoopContinues(n, [testLoads[n] EXCEPT !.lines = ManifestLines(text)])
    /\ UNCHANGED <<sessionVars, loadVars, pageVars, mounted, modelLoaded, clicks>>

\* ManifestFailed with the outer catch handing an empty list to onFilesLoaded
ManifestFailedDeliversEmpty(n) ==
    /\ mounted
    /\ n \in 1..Len(testLoads) /\ testLoads[n].phase = "manifest"
    /\ testLoads' = RemoveAt(testLoads, n)
    /\ ended' = [how |-> "aborted", lines |-> <<>>, failed |-> {},
                 k |-> testLoads[n].k]
    /\ onFilesLoaded(<<>>)
    /\ UNCHANGED <<sessionVars, loadVars, pageVars, mounted, modelLoaded, clicks>>

\* fetch(transcriptionsFile) or response.text() rejected: the outer catch
ManifestFailed(n) ==
    /\ mounted
    /\ n \in 1..Len(testLoads) /\ testLoads[n].phase = "manifest"
    /\ testLoads' = RemoveAt(testLoads, n)
    /\ ended' = [how |-> "aborted", lines |-> <<>>, failed |-> {},
                 k |-> testLoads[n].k]
    /\ ops' = <<>>
    /\ UNCHANGED <<sessionVars, loadVars, pageVars, mounted, batchVars, transcriberVars, clicks>>

\* LineFailed with the inner catch pushing an entry for the line all the same
LineFailedKeepsItem(n) ==
    LET r == testLoads[n] IN
    LoopContinues(n, [r EXCEPT !.failed = @ \cup {r.k},
                               !.list = Append(@, TestItem(r.lines[r.k], "null",
                                                            SAMPLING_RATE))])

\* the inner catch: the line is logged and skipped
LineFailed(n) ==
    LoopContinues(n, [testLoads[n] EXCEPT !.failed = @ \cup {testLoads[n].k}])

\* the inner try's push
LinePushed(n, nativeRate) ==
    LET r == testLoads[n] IN
    LoopContinues(n, [r EXCEPT !.list = Append(@, TestItem(r.lines[r.k], r.ctype,
                                                           nativeRate))])

\* fetch(audioFilePath) and audioResponse.arrayBuffer() settled
FileFetched(n, ok, contentType) ==
    /\ mounted
    /\ n \in 1..Len(testLoads) /\ testLoads[n].phase = "fetch"
    /\ IF ok
         THEN /\ testLoads' = [testLoads EXCEPT ![n].phase = "decode",
                                                ![n].ctype = contentType]
              /\ ops' = <<>>
              /\ UNCHANGED <<batchVars, calls, ended>>
         ELSE LineFailed(n)
    /\ UNCHANGED <<sessionVars, loadVars, pageVars, mounted, modelLoaded, clicks>>

\* audioCTX.decodeAudioData(arrayBuffer) settled
FileDecoded(n, ok, nativeRate) ==
    /\ mounted
    /\ n \in 1..Len(testLoads) /\ testLoads[n].phase = "decode"
    /\ IF ok THEN LinePushed(n, nativeRate) ELSE LineFailed(n)
    /\ UNCHANGED <<sessionVars, loadVars, pageVars, mounted, modelLoaded, clicks>>

-----------------------------------------------------------------------------
(* CopyButton: the exported batch report *)

UpperCase == <<"A","B","C","D","E","F","G","H","I","J","K","L","M",
               "N","O","P","Q","R","S","T","U","V","W","X","Y","Z">>
LowerCase == <<"a","b","c","d","e","f","g","h","i","j","k","l","m",
               "n","o","p","q","r","s","t","u","v","w","x","y","z">>

\* String.prototype.toLowerCase
toLowerCase(s) ==
    [k \in 1..Len(s) |->
        IF \E j \in 1..Len(UpperCase) : UpperCase[j] = s[k]
            THEN LowerCase[CHOOSE j \in 1..Len(UpperCase) : UpperCase[j] = s[k]]
            ELSE s[k]]

\* `${n}` for a whole number n >= 0
RECURSIVE NumberToString(_)
NumberToString(n) ==
    LET digit == <<"0","1","2","3","4","5","6","7","8","9">>[(n % 10) + 1] IN
    IF n < 10 THEN <<digit>> ELSE NumberToString(n \div 10) \o <<digit>>

\* Array.prototype.join
RECURSIVE join(_, _)
join(strings, sep) ==
    IF strings = <<>> THEN <<>>
    ELSE IF Len(strings) = 1 THEN strings[1]
    ELSE strings[1] \o sep \o join(Tail(strings), sep)

\* Block without the two trim() calls
BlockUntrimmed(data) ==
    NumberToString(data.latency) \o <<"\n">> \o toLowerCase(data.groundTruth)
        \o <<"\n">> \o toLowerCase(data.transcription)

\* the template literal mapped over the results
Block(data) ==
    NumberToString(data.latency) \o <<"\n">> \o trim(toLowerCase(data.groundTruth))
        \o <<"\n">> \o trim(toLowerCase(data.transcription))

\* CopyButton's concatenatedResults, for results none of which is undefined
\* (the render throws otherwise, see RenderThrows)
concatenatedResults(results) ==
    join([k \in 1..Len(results) |-> Block(results[k][1])], <<"\n">>)

\* CopyButton is rendered while transcriptionResults is not empty; its
\* button's onClick writes concatenatedResults to the clipboard
CopyClick ==
    /\ mounted
    /\ Len(transcriptionResults) > 0
    /\ ~RenderThrows(transcriptionResults)
    /\ clipboard' = <<concatenatedResults(transcriptionResults)>>
    /\ ops' = <<>>
    /\ UNCHANGED <<sessionVars, loadVars, mounted, batchVars, testTileVars,
                   transcriberVars, chatVars>>

-----------------------------------------------------------------------------
(* ChatbotPage *)

\* the state of AudioManager and CopyButton, which the chat page never touches
notChatVars == <<sessionVars, loadVars, mounted, batchVars, testTileVars,
                 transcriberVars, clipboard>>

Message(role, content) == [role |-> role, content |-> content]

SystemMessage == Message("system", <<"You are a helpful assistant.">>)
TranscribeError == Message("assistant", <<"Error: Unable to transcribe audio.">>)
RequestError ==
    Message("assistant", <<"Error: Unable to get a response from OpenAI API.">>)
AssistantMessage == Message("assistant", <<"response.data.choices[0].message.content">>)

\* the page's own useTranscriber() instance is busy while a start it was
\* asked for is in flight
chatIsBusy == transcriptions # {}

\* what the chat page's start can hand handleTranscription
ChatOutcomes == {<<"ok", t>> : t \in ChatTexts} \cup {<<"undefined">>, <<"throw">>}

\* handleApiKeyChange, and the mount effect that reads localStorage
SetApiKey(k) ==
    /\ apiKey' = k
    /\ ops' = <<>>
    /\ UNCHANGED <<notChatVars, messages, inputText, isLoading, isRecording,
                   transcriptions, requests>>

\* the text input's onChange; the input is disabled while loading, recording
\* or transcribing
Type(t) ==
    /\ ~(isLoading \/ isRecording \/ chatIsBusy)
    /\ inputText' = t
    /\ ops' = <<>>
    /\ UNCHANGED <<notChatVars, messages, isLoading, apiKey, isRecording,
                   transcriptions, requests>>

\* handleSend without its two early returns
handleSendUnchecked(closure, messageText, m, i, l) ==
    LET text == IF messageText # <<>> THEN messageText ELSE closure.inputText IN
    <<TRUE, Append(closure.messages, Message("user", text)), <<>>, TRUE>>

\* handleSend(messageText) as the closure of a render whose state was
\* [messages, inputText, apiKey] runs it, up to its await: <<sent, m, i, l>>
\* is whether a request was sent and the values it leaves in messages,
\* inputText and isLoading, given the values m, i, l they have when it is
\* called
handleSend(closure, messageText, m, i, l) ==
    LET text == IF messageText # <<>> THEN messageText ELSE closure.inputText IN
    IF trim(text) = <<>> \/ closure.apiKey = ""
        THEN <<FALSE, m, i, l>>
        ELSE <<TRUE, Append(closure.messages, Message("user", text)), <<>>, TRUE>>

\* the Record button while not recording: startRecording
StartRecording ==
    /\ ~(isLoading \/ chatIsBusy)
    /\ ~isRecording
    /\ Len(messages) < MaxMessages
    /\ isRecording' = TRUE
    /\ ops' = <<>>
    /\ UNCHANGED <<notChatVars, messages, inputText, isLoading, apiKey,
                   transcriptions, requests>>

\* the Record button while recording: stopRecording; the recorder hands over
\* its audioData and the effect on [audioData] runs handleTranscription up
\* to its await
StopRecording ==
    /\ ~(isLoading \/ chatIsBusy)
    /\ isRecording
    /\ isRecording' = FALSE
    /\ isLoading' = TRUE
    /\ transcriptions' = transcriptions \cup
           {[messages |-> messages, inputText |-> inputText, apiKey |-> apiKey]}
    /\ ops' = <<>>
    /\ UNCHANGED <<notChatVars, messages, inputText, apiKey, requests>>

\* handleTranscription with a catch that only logs
TranscriptionSettledSilently(t, outcome) ==
    /\ t \in transcriptions
    /\ transcriptions' = transcriptions \ {t}
    /\ IF outcome[1] = "ok"
         THEN LET sent == handleSend(t, outcome[2], messages, outcome[2], isLoading) IN
              /\ messages' = sent[2]
              /\ inputText' = sent[3]
              /\ requests' = IF sent[1] THEN requests \cup {sent[2]} ELSE requests
         ELSE UNCHANGED <<messages, inputText, requests>>
    /\ isLoading' = FALSE
    /\ ops' = <<>>
    /\ UNCHANGED <<notChatVars, apiKey, isRecording>>

\* handleTranscription after its await: setInputText and handleSend (not
\* awaited) on success, the catch when start threw or `result.text` threw on
\* an undefined result, then the finally
TranscriptionSettled(t, outcome) ==
    /\ t \in transcriptions
    /\ transcriptions' = transcriptions \ {t}
    /\ IF outcome[1] = "ok"
         THEN LET sent == handleSend(t, outcome[2], messages, outcome[2], isLoading) IN
              /\ messages' = sent[2]
              /\ inputText' = sent[3]
              /\ requests' = IF sent[1] THEN requests \cup {sent[2]} ELSE requests
         ELSE /\ messages' = Append(messages, TranscribeError)
              /\ UNCHANGED <<inputText, requests>>
    /\ isLoading' = FALSE
    /\ ops' = <<>>
    /\ UNCHANGED <<notChatVars, apiKey, isRecording>>

\* the Send button: handleSend() of the current render, up to its await
SendClick ==
    /\ ~(isLoading \/ trim(inputText) = <<>> \/ isRecording \/ chatIsBusy)
    /\ Len(messages) < MaxMessages
    /\ LET sent == handleSend([messages |-> messages, inputText |-> inputText,
                               apiKey |-> apiKey], <<>>, messages, inputText, isLoading)
       IN /\ messages' = sent[2]
          /\ inputText' = sent[3]
          /\ isLoading' = sent[4]
          /\ requests' = IF sent[1] THEN requests \cup {sent[2]} ELSE requests
    /\ ops' = <<>>
    /\ UNCHANGED <<notChatVars, apiKey, isRecording, transcriptions>>

\* handleSend after its await: r is the request's body (updatedMessages);
\* the response's message or the catch's error message is appended, then the
\* finally
RequestSettled(r, ok) ==
    /\ r \in requests
    /\ requests' = requests \ {r}
    /\ messages' = Append(messages, IF ok THEN AssistantMessage ELSE RequestError)
    /\ isLoading' = FALSE
    /\ ops' = <<>>
    /\ UNCHANGED <<notChatVars, inputText, apiKey, isRecording, transcriptions>>

-----------------------------------------------------------------------------
Init ==
    /\ progress = <<>>
    /\ audioData = <<>>
    /\ audioDownloadUrl = "undefined"
    /\ loads = {}
    /\ nextId = 1
    /\ objectUrls = {}
    /\ stale = {}
    /\ mounted = TRUE
    /\ audioDataList = <<>>
    /\ transcriptionResults = <<>>
    /\ testProgress = <<0, 1>>
    /\ testLoads = <<>>
    /\ clicks = 0
    /\ ended = [how |-> "none", lines |-> <<>>, failed |-> {}, k |-> 0]
    /\ batches = <<>>
    /\ calls = {}
    /\ modelLoaded = FALSE
    /\ ops = <<>>
    /\ clipboard = <<>>
    /\ messages = <<SystemMessage>>
    /\ inputText = <<>>
    /\ isLoading = FALSE
    /\ apiKey = ""
    /\ isRecording = FALSE
    /\ transcriptions = {}
    /\ requests = {}

UrlSettles ==
    \/ \E l \in loads, f \in ProgressFractions : UrlProgress(l, f)
    \/ \E l \in loads, c \in ContentTypes : UrlFetchOk(l, c)
    \/ \E l \in loads : UrlFetchFail(l)
    \/ \E l \in loads, r \in NativeRates : UrlDecodeOk(l, r)
    \/ \E l \in loads : UrlDecodeFail(l)

UrlNext == (\E u \in Urls : SubmitUrl(u)) \/ UrlSettles

RecSettles ==
    \/ \E l \in loads, f \in ProgressFractions : RecProgress(l, f)
    \/ \E l \in loads : RecReadEnd(l)
    \/ \E l \in loads, r \in NativeRates : RecDecodeOk(l, r)
    \/ \E l \in loads : RecDecodeFail(l)

RecNext == (\E t \in BlobTypes : SubmitRecording(t)) \/ RecSettles

FileSettles ==
    \/ \E l \in loads, ok \in BOOLEAN : FileRead(l, ok)
    \/ \E l \in loads, r \in NativeRates : FileDecodeOk(l, r)
    \/ \E l \in loads : FileDecodeFail(l)

FileNext == (\E t \in BlobTypes : PickFile(t)) \/ FileSettles

LoadNext == UrlNext \/ RecNext \/ FileNext

SpecLoad == Init /\ [][LoadNext]_vars

\* the steps in which a request, a FileReader read or a decodeAudioData
\* promise settles
LoadEnds ==
    \/ \E l \in loads, c \in ContentTypes : UrlFetchOk(l, c)
    \/ \E l \in loads : UrlFetchFail(l)
    \/ \E l \in loads, r \in NativeRates : UrlDecodeOk(l, r)
    \/ \E l \in loads : UrlDecodeFail(l)
    \/ \E l \in loads : RecReadEnd(l)
    \/ \E l \in loads, r \in NativeRates : RecDecodeOk(l, r)
    \/ \E l \in loads : RecDecodeFail(l)
    \/ FileSettles

\* the loads under the browser's scheduling: what is in flight settles, one
\* way or the other; the user is free to stop submitting
SpecLoadFair == SpecLoad /\ WF_vars(LoadEnds)

TestTileSettles ==
    \/ \E n \in 1..Len(testLoads), text \in ManifestTexts : ManifestFetched(n, text)
    \/ \E n \in 1..Len(testLoads) : ManifestFailed(n)
    \/ \E n \in 1..Len(testLoads), ok \in BOOLEAN, c \in TestContentTypes :
           FileFetched(n, ok, c)
    \/ \E n \in 1..Len(testLoads), ok \in BOOLEAN, r \in NativeRates :
           FileDecoded(n, ok, r)

TestTileNext == handleClick \/ TestTileSettles

BatchNext ==
    \/ \E c \in calls, o \in Outcomes : BatchStartSettled(c, o)
    \/ ModelLoaded

ButtonNext ==
    \/ TranscribeClick
    \/ \E c \in calls : ButtonStartSettled(c)

CorpusNext == TestTileNext \/ BatchNext

SpecCorpus == Init /\ [][CorpusNext]_vars

StartNext == CorpusNext \/ FileNext \/ ButtonNext

\* the test corpus, the batch evaluator, the file adapter and the Transcribe
\* button: every caller of transcriber.start in AudioManager
SpecStart == Init /\ [][StartNext]_vars

\* the records a successful item leaves in transcriptionResults
ReportRecords ==
    {<<[filename |-> <<"A","1">>, groundTruth |-> g, transcription |-> t,
        latency |-> l]>> : g \in ReportTruths, t \in ReportTexts, l \in ReportLatencies}

\* the state after batches that left 1..MaxResults records
InitReport ==
    /\ progress = <<>>
    /\ audioData = <<>>
    /\ audioDownloadUrl = "undefined"
    /\ loads = {}
    /\ nextId = 1
    /\ objectUrls = {}
    /\ stale = {}
    /\ mounted = TRUE
    /\ audioDataList = <<>>
    /\ \E n \in 1..MaxResults : transcriptionResults \in [1..n -> ReportRecords]
    /\ testProgress = <<100, 1>>
    /\ testLoads = <<>>
    /\ clicks = 0
    /\ ended = [how |-> "none", lines |-> <<>>, failed |-> {}, k |-> 0]
    /\ batches = <<>>
    /\ calls = {}
    /\ modelLoaded = TRUE
    /\ ops = <<>>
    /\ clipboard = <<>>
    /\ messages = <<SystemMessage>>
    /\ inputText = <<>>
    /\ isLoading = FALSE
    /\ apiKey = ""
    /\ isRecording = FALSE
    /\ transcriptions = {}
    /\ requests = {}

ReportNext == CopyClick

ChatNext ==
    \/ \E k \in ApiKeys : SetApiKey(k)
    \/ \E t \in TypedTexts : Type(t)
    \/ StartRecording
    \/ StopRecording
    \/ \E t \in transcriptions, o \in ChatOutcomes : TranscriptionSettled(t, o)
    \/ SendClick
    \/ \E r \in requests, ok \in BOOLEAN : RequestSettled(r, ok)

\* the chat page
SpecChat == Init /\ [][ChatNext]_vars

\* CopyButton over the results of finished batches
SpecReport == InitReport /\ [][ReportNext]_vars

\* adapter invocations begun so far
FlowsBegun == (nextId - 1) + clicks

\* the four adapters side by side, with the Transcribe button; a batch goes
\* as far as its first transcriber.start
AdaptersNext ==
    \/ /\ FlowsBegun < MaxFlows
       /\ \/ \E u \in Urls : SubmitUrl(u)
          \/ \E t \in BlobTypes : SubmitRecording(t)
          \/ \E t \in BlobTypes : PickFile(t)
          \/ handleClick
    \/ UrlSettles \/ RecSettles \/ FileSettles \/ TestTileSettles
    \/ ButtonNext \/ ModelLoaded

SpecAdapters == Init /\ [][AdaptersNext]_vars

-----------------------------------------------------------------------------
(* Properties *)

\* fractions <<num, den>> compared exactly
Leq(p, q) == p[1] * q[2] <= q[1] * p[2]
Is100(p) == p[1] = 100 * p[2]

\* <<identifier, ground truth>> of every entry of an item list
Identified(list) == [k \in 1..Len(list) |-> <<list[k].filename, list[k].transcription>>]

\* <<identifier, ground truth>> of the manifest records (the lines that have a
\* space) from line k on whose index is not in `failed`, in manifest order
RECURSIVE Succeeded(_, _, _)
Succeeded(lines, failed, k) ==
    IF k > Len(lines) THEN <<>>
    ELSE (IF HasSpace(lines[k]) /\ k \notin failed
             THEN <<(<<Filename(lines[k]), GroundTruth(lines[k])>>)>>
             ELSE <<>>)
         \o Succeeded(lines, failed, k + 1)

\* the lines of the manifest "A3 t"
A03Lines == ManifestLines(<<"A","3"," ","t">>)

\* a handleClick over the manifest "A3 t" has ended after A3's audio failed
A03FetchFailed ==
    ended.how = "delivered" /\ ended.lines = A03Lines /\ ended.failed = {1}

\* this step ends a handleClick invocation
EndsHandleClick == Len(testLoads') < Len(testLoads)

\* C1: a URL load that was still pending (fetching or decoding) when a later
\* URL load began never becomes the current audio.
C1_StaleUrlLoadNeverInstalled ==
    audioData # <<>> => audioData[1].buffer \notin stale

\* C2: at most one audio load (URL, file, recording) is in flight at any
\* time: a new request cancels the pending load or is rejected.
C2_AtMostOneLoadInFlight == Cardinality(loads) <= 1

\* C3: at no time are two transcriber.start invocations in flight, whatever
\* the interleaving of the Transcribe button and the batch evaluator.
C3_SingleFlightStart == Cardinality(calls) <= 1

\* C4: once the batch over the current audioDataList of N items has finished
\* (no batch is running), transcriptionResults holds exactly N entries and
\* the i-th entry, when start returned data for it, names the i-th item.
C4_BatchResultsMatchList ==
    (audioDataList # <<>> /\ RunningBatches = {}) =>
        /\ Len(transcriptionResults) = Len(audioDataList)
        /\ \A k \in 1..Len(transcriptionResults) :
              transcriptionResults[k] # <<>> =>
                 /\ transcriptionResults[k][1].filename = audioDataList[k].filename
                 /\ transcriptionResults[k][1].groundTruth = audioDataList[k].transcription

\* C5: while a batch is running testProgress never decreases, and it is 100
\* only when no batch has an item left to settle.
C5_TestProgressMonotone ==
    [][/\ RunningBatches # {} => Leq(testProgress, testProgress')
       /\ Is100(testProgress') => RunningBatches' = {}]_vars

\* C6: the entry appended for an item whose start threw or returned no data
\* is a record carrying the item's identifier and ground truth: no entry of
\* transcriptionResults is undefined.
C6_FailedItemKeepsIdentifier ==
    \A k \in 1..Len(transcriptionResults) : transcriptionResults[k] # <<>>

\* C7 (as claimed): once the load of the manifest "A3 t" has ended with A3's
\* audio failed and no batch is running, transcriptionResults holds one
\* record, for A3, and testProgress is 100.
C7_FailedFetchStillYieldsRecord ==
    (A03FetchFailed /\ RunningBatches = {}) =>
        /\ Len(transcriptionResults) = 1
        /\ transcriptionResults[1] # <<>> => transcriptionResults[1][1].filename = <<"A","3">>
        /\ Is100(testProgress)

\* C7 (amended): the load of the manifest "A3 t" whose audio fails hands an
\* empty list to onFilesLoaded and starts no batch and no transcriber.start:
\* the step leaves transcriptionResults and testProgress as they were.
C7_FailedFetchYieldsEmptyList ==
    [][(EndsHandleClick /\ A03FetchFailed') =>
          /\ audioDataList' = <<>>
          /\ UNCHANGED <<transcriptionResults, testProgress, batches>>
          /\ \A c \in calls' : \E d \in calls :
                d.caller = c.caller /\ d.item = c.item]_vars

C7_Witness ==
    A03FetchFailed /\ audioDataList = <<>> /\ transcriptionResults # <<>>

\* C8: the list handed to onFilesLoaded is exactly the manifest records whose
\* fetch and decode both succeeded, in manifest order, each with its own
\* identifier and ground truth.
C8_DeliveredListIsSucceededRecords ==
    ended.how = "delivered" =>
        Identified(audioDataList) = Succeeded(ended.lines, ended.failed, 1)

C8_Witness ==
    /\ ended.how = "delivered"
    /\ ended.failed # {}
    /\ audioDataList # <<>>
    /\ ended.k > 1

\* C9 (as claimed): when the manifest fetch has failed no audio file was
\* fetched and the item list is empty.
C9_ManifestFailureEmptiesList ==
    ended.how = "aborted" => (ended.k = 0 /\ audioDataList = <<>>)

\* C9 (amended): when the manifest fetch fails no audio file is fetched and
\* onFilesLoaded is not called: the step leaves audioDataList,
\* transcriptionResults, testProgress and the batches as they were.
C9_ManifestFailureLeavesListUnchanged ==
    [][(EndsHandleClick /\ ended'.how = "aborted") =>
          /\ ended'.k = 0
          /\ UNCHANGED <<audioDataList, transcriptionResults, testProgress,
                         batches, calls>>]_vars

C9_Witness == ended.how = "aborted" /\ audioDataList # <<>>

\* C10: when the current audio is replaced or cleared, its object URL is
\* released: it is no longer among the live object URLs.
C10_HandleReleasedWhenSuperseded ==
    [][(audioData # <<>> /\ audioData' # audioData) =>
          audioData[1].url \notin objectUrls']_vars

\* the setters of the audio session state
SessionOps == {"setAudioData", "setAudioDownloadUrl", "setProgress", "setAudioDataList"}

\* C11: in each adapter flow transcriber.onInputChange() comes before the
\* first call the flow makes on a setter of the audio session state: a setter
\* call of a step is made by a flow that signalled in an earlier step, or it
\* follows the flow's onInputChange within the step.
C11_InputChangeSignalledFirst ==
    [][\A p \in 1..Len(ops') :
          ops'[p].op \in SessionOps =>
             \/ \E l \in loads : l.signalled /\ l.id = ops'[p].flow
             \/ \E q \in 1..(p - 1) : ops'[q] = Op(ops'[p].flow, "onInputChange")]_vars

C11_Witness ==
    /\ ops = <<Op(nextId - 1, "onInputChange"), Op(nextId - 1, "setAudioData")>>
    /\ audioData # <<>> /\ audioData[1].source = "FILE"
    /\ audioDataList # <<>>

\* the start invocations of batch n in flight
CallsOf(cs, n) == {c \in cs : c.caller = n}

\* C12: a batch has exactly one start in flight while it runs, for the item
\* its loop is at, and none once it has finished; each of its steps moves it
\* from item i to item i+1 with a new start for item i+1, or from its last
\* item to the end: it skips no item, repeats none and does not end early,
\* whatever its starts return or throw.
C12_BatchIsSequential ==
    [][/\ \A n \in 1..Len(batches') :
             IF BatchDone(batches'[n])
                 THEN CallsOf(calls', n) = {}
                 ELSE /\ Cardinality(CallsOf(calls', n)) = 1
                      /\ \A c \in CallsOf(calls', n) : c.item = batches'[n].i
       /\ \A n \in 1..Len(batches) :
             LET b == batches[n] IN
             \/ batches'[n] = b
             \/ /\ b.i < Len(b.items)
                /\ batches'[n] = [b EXCEPT !.i = b.i + 1]
             \/ /\ b.i = Len(b.items)
                /\ batches'[n] = Finished]_vars

C12_Witness ==
    /\ transcriptionResults = <<(<<>>)>>
    /\ Len(batches) = 1 /\ batches[1].i = 2
    /\ \E c \in calls : c.caller = 1 /\ c.item = 2 /\ c.phase = "inference"

\* C13: a start that was in flight when onInputChange() was signalled is
\* stale: when it settles, the batch evaluator adds nothing to
\* transcriptionResults for it.
C13_StaleResultNotRecorded ==
    [][\A c \in calls :
          (c.changed /\ c.caller > 0 /\ batches'[c.caller] # batches[c.caller])
              => transcriptionResults' = transcriptionResults]_vars

\* C14: the audio a URL load installs has mimeType "audio/wav" when the
\* response's content type was missing, empty or "audio/wave", and the
\* response's content type itself for every other value.
C14_UrlMimeNormalised ==
    [][\A l \in loads :
          (/\ l.kind = "url" /\ l.phase = "decode"
           /\ audioData' # audioData /\ audioData' # <<>>
           /\ audioData'[1].buffer = l.id)
          => audioData'[1].mimeType =
                 IF l.contentType \in {"undefined", "", "audio/wave"}
                     THEN "audio/wav"
                     ELSE l.contentType]_vars

C14_Witness ==
    /\ audioData # <<>>
    /\ audioData[1].source = "URL"
    /\ audioData[1].mimeType = "audio/wav"

\* C15: no audio installed as the current audio or placed in the batch list
\* has a mimeType that is empty or "audio/wave".
C15_NoEmptyOrWaveMime ==
    /\ audioData # <<>> => audioData[1].mimeType \notin {"", "audio/wave"}
    /\ \A k \in 1..Len(audioDataList) :
          audioDataList[k].mimeType \notin {"", "audio/wave"}

\* C16: every decoded audio (the current audio, the items of the batch list
\* and of every batch) has the sample rate SAMPLING_RATE, and so has every
\* buffer handed to transcriber.start, whatever the payload's native rate.
C16_DecodedAtSamplingRate ==
    /\ audioData # <<>> => audioData[1].sampleRate = SAMPLING_RATE
    /\ \A k \in 1..Len(audioDataList) : audioDataList[k].sampleRate = SAMPLING_RATE
    /\ \A n \in 1..Len(batches) : \A k \in 1..Len(batches[n].items) :
          batches[n].items[k].sampleRate = SAMPLING_RATE
    /\ \A c \in calls : c.rate = SAMPLING_RATE

C16_Witness ==
    /\ audioData # <<>>
    /\ Len(audioDataList) > 1
    /\ \E c \in calls : c.caller = 0
    /\ \E c \in calls : c.caller > 0

\* Number(line) for a line of decimal digits, -1 (NaN) for any other line
RECURSIVE ParseNumber(_)
ParseNumber(line) ==
    LET IsDigit(c) == c \in {"0","1","2","3","4","5","6","7","8","9"}
        Value(c) == CHOOSE d \in 0..9 : NumberToString(d) = <<c>>
    IN IF line = <<>> \/ \E k \in 1..Len(line) : ~IsDigit(line[k]) THEN -1
       ELSE IF Len(line) = 1 THEN Value(line[1])
       ELSE ParseNumber(SubSeq(line, 1, Len(line) - 1)) * 10 + Value(line[Len(line)])

\* a report read back: its lines in consecutive blocks of three
ParseReport(report) ==
    LET lines == split(report, "\n") IN
    [k \in 1..(Len(lines) \div 3) |->
        [latency |-> ParseNumber(lines[3 * k - 2]),
         groundTruth |-> lines[3 * k - 1],
         transcription |-> lines[3 * k]]]

\* what a report of `results` is to give back
Exported(results) ==
    [k \in 1..Len(results) |->
        [latency |-> results[k][1].latency,
         groundTruth |-> trim(toLowerCase(results[k][1].groundTruth)),
         transcription |-> trim(toLowerCase(results[k][1].transcription))]]

\* C17: once the batch over the current list of N items has finished, the
\* report exists and is N blocks of three lines joined by newlines: the
\* latency, the lowercased trimmed ground truth of the k-th item and the
\* lowercased trimmed transcription.
C17_ReportHasBlockPerItem ==
    (audioDataList # <<>> /\ RunningBatches = {}) =>
        /\ ~RenderThrows(transcriptionResults)
        /\ LET lines == split(concatenatedResults(transcriptionResults), "\n") IN
           /\ Len(lines) = 3 * Len(audioDataList)
           /\ \A k \in 1..Len(audioDataList) :
                 /\ lines[3 * k - 2] = NumberToString(transcriptionResults[k][1].latency)
                 /\ lines[3 * k - 1] = trim(toLowerCase(audioDataList[k].transcription))
                 /\ lines[3 * k] = trim(toLowerCase(transcriptionResults[k][1].transcription))

SingleLine(results) ==
    \A k \in 1..Len(results) :
        indexOf(trim(results[k][1].transcription), "\n") = -1

C19_RecordPairsItemWithItsResult ==
    [][\A c \in calls, o \in Outcomes :
          (mounted /\ o[1] = "ok" /\ BatchStartSettled(c, o)) =>
              transcriptionResults' =
                  Append(transcriptionResults,
                         <<[filename |-> batches[c.caller].items[c.item].filename,
                            groundTruth |-> batches[c.caller].items[c.item].transcription,
                            transcription |-> o[2],
                            latency |-> o[3]]>>)]_vars

C19_Witness ==
    /\ mounted /\ RunningBatches = {}
    /\ Len(transcriptionResults) = 2
    /\ transcriptionResults[1] # <<>> /\ transcriptionResults[2] # <<>>
    /\ transcriptionResults[1][1].filename = <<"A","1">>
    /\ transcriptionResults[2][1].filename = <<"A","2">>
    /\ transcriptionResults[1][1].transcription # transcriptionResults[2][1].transcription

\* C20: when the start of a recording's transcription fails (it throws, or
\* resolves with no result), the step appends exactly the assistant message
\* "Error: Unable to transcribe audio.", sends no chat-completion request and
\* leaves isLoading false.
C20_FailedTranscriptionSurfacesInline ==
    [][\A t \in transcriptions, o \in {<<"undefined">>, <<"throw">>} :
          TranscriptionSettled(t, o) =>
              /\ messages' = Append(messages, TranscribeError)
              /\ requests' = requests
              /\ isLoading' = FALSE]_vars

C20_Witness ==
    /\ messages[Len(messages)] = TranscribeError
    /\ messages[Len(messages) - 1].role = "user"
    /\ requests # {}
    /\ transcriptions = {}
    /\ ~isLoading

\* C21: a step that changes the URL while a URL fetch is in flight (a new URL,
\* or a recording that clears it) aborts that fetch: the request is gone
\* after the step, its abort is among the step's calls, and it comes before
\* the step's axios.get for the new URL.
C21_PriorFetchAbortedFirst ==
    [][\A l \in FetchingLoads :
          audioDownloadUrl' # audioDownloadUrl =>
             /\ \A m \in loads' : m.id # l.id
             /\ \E q \in 1..Len(ops') : ops'[q] = Op(l.id, "abort")
             /\ \A p \in 1..Len(ops') :
                   ops'[p].op = "axios.get" =>
                      \E q \in 1..(p - 1) : ops'[q] = Op(l.id, "abort")]_vars

C21_Witness ==
    /\ \E q \in 1..Len(ops) : ops[q] = Op(1, "abort")
    /\ \E p \in 1..Len(ops) : ops[p] = Op(2, "axios.get")
    /\ \E l \in loads : l.id = 2 /\ l.kind = "url" /\ l.phase = "fetch"
    /\ Cardinality(loads) = 1

\* a URL download or a recording load is between its begin and the settling of
\* its decode
SessionLoadInFlight == \E l \in loads : l.kind \in {"url", "rec"}

\* C22: progress is a number exactly while a URL download or a recording load
\* is in flight (begun, and its fetch or read and its decode not both
\* settled), and undefined exactly when none is.
C22_ProgressIffLoadInFlight == isAudioLoading <=> SessionLoadInFlight

\* C25: every load that sets progress to a number eventually returns it to
\* undefined, whether its fetch or read and its decode succeed, fail or are
\* aborted: isAudioLoading never stays true forever.
C25_ProgressEventuallyCleared == isAudioLoading ~> ~isAudioLoading

\* the last step began the URL download or recording load f: it called
\* onInputChange and setProgress for it
BeganLoad(f) ==
    /\ \E q \in 1..Len(ops) : ops[q] = Op(f, "onInputChange")
    /\ \E q \in 1..Len(ops) : ops[q] = Op(f, "setProgress")

\* the last write of progress in the last step was made by flow f
LastProgressBy(f) ==
    \E q \in 1..Len(ops) :
       /\ ops[q] = Op(f, "setProgress")
       /\ \A p \in (q + 1)..Len(ops) : ops[p].op # "setProgress"

\* C23: immediately after a URL download or a recording load begins, the load
\* has called setAudioData and setProgress, audioData is absent and the
\* Transcribe button cannot call start; progress is 0 when the load's
\* setProgress(0) is the step's last write of progress.
C23_BeginClearsAudio ==
    \A f \in 1..MaxLoads :
       BeganLoad(f) =>
          /\ \E q \in 1..Len(ops) : ops[q] = Op(f, "setAudioData")
          /\ audioData = <<>>
          /\ ~ENABLED TranscribeClick
          /\ LastProgressBy(f) => progress = <<0>>

C23_Witness ==
    /\ BeganLoad(2) /\ LastProgressBy(2)
    /\ 1 \in objectUrls /\ \A l \in loads : l.id = 2
    /\ audioData = <<>> /\ progress = <<0>>
    /\ modelLoaded /\ ~isBusy

C26_EverySubmitFetches ==
    [][\A u \in Urls :
          (Truthy(u) /\ SubmitUrl(u)) =>
             /\ audioDownloadUrl' = u
             /\ \E l \in loads' \ loads : l.kind = "url" /\ l.phase = "fetch"]_vars

\* C27: whenever no batch is running, transcriptionResults contains only
\* records of the corpus list loaded last: every record carries the filename
\* and ground truth of an item of audioDataList.
C27_ResultsOfLatestCorpusOnly ==
    RunningBatches = {} =>
       \A k \in 1..Len(transcriptionResults) :
          transcriptionResults[k] # <<>> =>
             \E j \in 1..Len(audioDataList) :
                /\ transcriptionResults[k][1].filename = audioDataList[j].filename
                /\ transcriptionResults[k][1].groundTruth = audioDataList[j].transcription

\* C28: the conversation is append-only: in every step of every interleaving
\* of typed sends, recording-triggered sends and API responses, messages
\* keeps every entry it had, in place, and only grows at its end.
C28_ConversationAppendOnly ==
    [][/\ Len(messages') >= Len(messages)
       /\ \A k \in 1..Len(messages) : messages'[k] = messages[k]]_vars

\* C29: isLoading is true in every state in which a transcription the page
\* started or a chat-completion request is in flight.
C29_LoadingWhileInFlight ==
    (transcriptions # {} \/ requests # {}) => isLoading

\* the text handleSend works on: `messageText || inputText` of its closure
SendText(closure, messageText) ==
    IF messageText # <<>> THEN messageText ELSE closure.inputText

\* C30: handleSend called with a text that is empty or only whitespace, or
\* with no API key in its closure, sends no request and leaves messages,
\* inputText and isLoading as they are when it is called: for the current
\* render's closure in every reachable state and every argument, and in the
\* step in which a transcription resolves and calls it, where inputText is
\* the transcribed text handleTranscription has just set and isLoading the
\* false of its finally.
C30_BlankOrKeylessSendIsNoOp ==
    /\ [](\A mt \in TypedTexts \cup ChatTexts :
            LET closure == [messages |-> messages, inputText |-> inputText,
                            apiKey |-> apiKey]
            IN (trim(SendText(closure, mt)) = <<>> \/ apiKey = "") =>
                  handleSend(closure, mt, messages, inputText, isLoading)
                     = <<FALSE, messages, inputText, isLoading>>)
    /\ [][\A t \in transcriptions, text \in ChatTexts :
            (/\ TranscriptionSettled(t, <<"ok", text>>)
             /\ trim(SendText(t, text)) = <<>> \/ t.apiKey = "") =>
                /\ requests' = requests
                /\ messages' = messages
                /\ inputText' = text
                /\ isLoading' = FALSE]_vars

C30_Witness ==
    /\ transcriptions = {} /\ requests = {}
    /\ inputText = <<"y", "o">>
    /\ messages = <<SystemMessage>>
    /\ apiKey = "" /\ ~isLoading /\ ~isRecording

====
